---- MODULE Spec2Model ----
(***************************************************************************)
(* The lux <-> raw count conversions of the VEML7700 driver,               *)
(* src/correction.rs.  The functions are pure f32 arithmetic, so the model *)
(* carries IEEE-754 binary32 values bit for bit: every operation rounds to *)
(* nearest, ties to even, as the hardware the driver is compiled for does. *)
(* sqrt and powf are the methods of f32 itself, which a build with std     *)
(* calls whether or not micromath::F32Ext (line 4) is in scope: sqrt is    *)
(* correctly rounded and powf is taken to be correctly rounded as well.    *)
(* Integers of the model stay below 2^31; wider intermediate products are  *)
(* kept as sequences of limbs.                                             *)
(***************************************************************************)
EXTENDS Integers, Sequences, FiniteSets, TLC

----------------------------------------------------------------------------
(* f32 values                                                              *)
(* A finite value is (-1)^s * m * 2^e with m < 2^MantBits and e >= MinExp; *)
(* m has exactly MantBits bits unless e = MinExp (subnormals and zero).    *)

MantBits == 24
MinExp == -149
MaxExp == 104

NaN == [k |-> "nan", s |-> 0, m |-> 0, e |-> 0]
Inf(s) == [k |-> "inf", s |-> s, m |-> 0, e |-> 0]
Zero(s) == [k |-> "fin", s |-> s, m |-> 0, e |-> MinExp]
Fin(s, m, e) == [k |-> "fin", s |-> s, m |-> m, e |-> e]

IsNaN(x) == x.k = "nan"
IsInf(x) == x.k = "inf"
IsFin(x) == x.k = "fin"
IsZero(x) == x.k = "fin" /\ x.m = 0

RECURSIVE BitLen(_)
\* the number of bits of n >= 0
BitLen(n) == IF n = 0 THEN 0 ELSE 1 + BitLen(n \div 2)

\* the f32 of sign s, significand m <= 2^MantBits and exponent q >= MinExp
Pack(s, m, q) ==
    IF m = 0 THEN Zero(s)
    ELSE IF m = 2^MantBits
         THEN (IF q + 1 > MaxExp THEN Inf(s) ELSE Fin(s, 2^(MantBits - 1), q + 1))
    ELSE IF q > MaxExp THEN Inf(s)
    ELSE Fin(s, m, q)

\* n * 2^e rounded at the bit of weight 2^q, for q > e
RoundAt(s, n, d, sticky, q) ==
    IF d > 30 THEN Zero(s)
    ELSE IF n % 2^d > 2^(d - 1)
            \/ (n % 2^d = 2^(d - 1) /\ (sticky \/ (n \div 2^d) % 2 = 1))
         THEN Pack(s, n \div 2^d + 1, q)
    ELSE Pack(s, n \div 2^d, q)

\* n * 2^e with its last place at the bit of weight 2^q
RoundTo(s, n, e, sticky, q) ==
    IF q <= e THEN Pack(s, n * 2^(e - q), q)
    ELSE RoundAt(s, n, q - e, sticky, q)

\* The f32 nearest (ties to even) to (-1)^s * (n + f) * 2^e, where
\* 0 < n < 2^30 and 0 <= f < 1, with f > 0 exactly when sticky; with sticky
\* set n has at least MantBits + 2 bits.
RoundF32(s, n, e, sticky) ==
    IF e + BitLen(n) - MantBits < MinExp THEN RoundTo(s, n, e, sticky, MinExp)
    ELSE RoundTo(s, n, e, sticky, e + BitLen(n) - MantBits)

\* an integer as f32
FromInt(i) ==
    IF i = 0 THEN Zero(0)
    ELSE IF i < 0 THEN RoundF32(1, -i, 0, FALSE)
    ELSE RoundF32(0, i, 0, FALSE)

FNeg(x) == IF IsNaN(x) THEN x ELSE [x EXCEPT !.s = 1 - x.s]

\* the shift that gives n > 0 exactly MantBits bits
NormShift(n) == MantBits - BitLen(n)

\* ma * mb * 2^e for significands of MantBits bits each: the product is
\* hi * 2^MantBits + lo, taken from the halves of ma and mb
MulNorm(s, ma, mb, e) ==
    LET h == 2^(MantBits \div 2)
        mid == (ma \div h) * (mb % h) + (ma % h) * (mb \div h)
        low == (mid % h) * h + (ma % h) * (mb % h)
        hi == (ma \div h) * (mb \div h) + mid \div h + low \div 2^MantBits
        lo == low % 2^MantBits
    IN  RoundF32(s, hi * 2^6 + lo \div 2^(MantBits - 6), e + MantBits - 6,
                 lo % 2^(MantBits - 6) # 0)

FMul(a, b) ==
    IF IsNaN(a) \/ IsNaN(b) THEN NaN
    ELSE IF IsInf(a) \/ IsInf(b)
         THEN (IF IsZero(a) \/ IsZero(b) THEN NaN ELSE Inf((a.s + b.s) % 2))
    ELSE IF a.m = 0 \/ b.m = 0 THEN Zero((a.s + b.s) % 2)
    ELSE MulNorm((a.s + b.s) % 2, a.m * 2^NormShift(a.m), b.m * 2^NormShift(b.m),
                 a.e - NormShift(a.m) + b.e - NormShift(b.m))

\* (-1)^sb * mb * 2^eb + (-1)^ss * ms * 2^es for significands of MantBits
\* bits with mb * 2^eb >= ms * 2^es: both get five more bits, the smaller
\* is shifted to the exponent of the larger and what falls off is sticky
AddNorm(sb, mb, eb, ss, ms, es) ==
    LET d == eb - es
        y == IF d > 29 THEN 0 ELSE (ms * 32) \div 2^d
        st == d > 29 \/ (ms * 32) % 2^d # 0
        n == IF sb = ss THEN mb * 32 + y
             ELSE mb * 32 - y - (IF st THEN 1 ELSE 0)
    IN  IF n = 0 THEN Zero(0) ELSE RoundF32(sb, n, eb - 5, st)

\* a + b for finite non-zero a, b
FAddFin(a, b) ==
    LET ma == a.m * 2^NormShift(a.m)
        ea == a.e - NormShift(a.m)
        mb == b.m * 2^NormShift(b.m)
        eb == b.e - NormShift(b.m)
    IN  IF ea > eb \/ (ea = eb /\ ma >= mb)
        THEN AddNorm(a.s, ma, ea, b.s, mb, eb)
        ELSE AddNorm(b.s, mb, eb, a.s, ma, ea)

FAdd(a, b) ==
    IF IsNaN(a) \/ IsNaN(b) THEN NaN
    ELSE IF IsInf(a)
         THEN (IF IsInf(b) /\ a.s # b.s THEN NaN ELSE a)
    ELSE IF IsInf(b) THEN b
    ELSE IF a.m = 0 /\ b.m = 0
         THEN (IF a.s = 1 /\ b.s = 1 THEN Zero(1) ELSE Zero(0))
    ELSE IF a.m = 0 THEN b
    ELSE IF b.m = 0 THEN a
    ELSE FAddFin(a, b)

FSub(a, b) == FAdd(a, FNeg(b))

RECURSIVE DivBits(_, _, _, _)
\* <<quotient, remainder>> of (r * 2^i) / d continued from the quotient q
DivBits(r, d, q, i) ==
    IF i = 0 THEN <<q, r>>
    ELSE IF 2 * r >= d THEN DivBits(2 * r - d, d, 2 * q + 1, i - 1)
    ELSE DivBits(2 * r, d, 2 * q, i - 1)

\* ma / mb * 2^e for significands of MantBits bits each
DivNorm(s, ma, mb, e) ==
    LET qr == DivBits(ma % mb, mb, ma \div mb, MantBits + 2)
    IN  RoundF32(s, qr[1], e - (MantBits + 2), qr[2] # 0)

FDiv(a, b) ==
    IF IsNaN(a) \/ IsNaN(b) THEN NaN
    ELSE IF IsInf(a) THEN (IF IsInf(b) THEN NaN ELSE Inf((a.s + b.s) % 2))
    ELSE IF IsInf(b) THEN Zero((a.s + b.s) % 2)
    ELSE IF b.m = 0 THEN (IF a.m = 0 THEN NaN ELSE Inf((a.s + b.s) % 2))
    ELSE IF a.m = 0 THEN Zero((a.s + b.s) % 2)
    ELSE DivNorm((a.s + b.s) % 2, a.m * 2^NormShift(a.m), b.m * 2^NormShift(b.m),
                 (a.e - NormShift(a.m)) - (b.e - NormShift(b.m)))

\* the two bits of n * 2^k at positions p + 1 and p
BitPair(n, k, p) ==
    IF p >= k THEN (n \div 2^(p - k)) % 4
    ELSE IF p = k - 1 THEN (n % 2) * 2
    ELSE 0

RECURSIVE SqrtBits(_, _, _, _, _)
\* <<root, remainder>> of the integer square root of n * 2^k, two bits a step
SqrtBits(n, k, p, root, rem) ==
    IF p < 0 THEN <<root, rem>>
    ELSE IF rem * 4 + BitPair(n, k, p) >= root * 4 + 1
         THEN SqrtBits(n, k, p - 2, root * 2 + 1,
                       rem * 4 + BitPair(n, k, p) - (root * 4 + 1))
    ELSE SqrtBits(n, k, p - 2, root * 2, rem * 4 + BitPair(n, k, p))

\* sqrt(n * 2^ex) for a significand n of MantBits bits; k makes ex - k even
SqrtNorm(n, ex, k) ==
    LET rr == SqrtBits(n, k, 2 * MantBits + 6, 0, 0)
    IN  RoundF32(0, rr[1], (ex - k) \div 2, rr[2] # 0)

\* a square root that takes a negative radicand for zero
FSqrtClamped(x) ==
    IF IsNaN(x) THEN NaN
    ELSE IF IsZero(x) THEN x
    ELSE IF x.s = 1 THEN Zero(0)
    ELSE IF IsInf(x) THEN x
    ELSE SqrtNorm(x.m * 2^NormShift(x.m), x.e - NormShift(x.m),
                  MantBits + 4 + ((x.e - NormShift(x.m) - (MantBits + 4)) % 2))

FSqrt(x) ==
    IF IsNaN(x) THEN NaN
    ELSE IF IsZero(x) THEN x
    ELSE IF x.s = 1 THEN NaN
    ELSE IF IsInf(x) THEN x
    ELSE SqrtNorm(x.m * 2^NormShift(x.m), x.e - NormShift(x.m),
                  MantBits + 4 + ((x.e - NormShift(x.m) - (MantBits + 4)) % 2))

\* -1, 0, 1 as |u| < |v|, |u| = |v|, |u| > |v|, for u, v not NaN
MagCmp(u, v) ==
    IF IsInf(u) THEN (IF IsInf(v) THEN 0 ELSE 1)
    ELSE IF IsInf(v) THEN -1
    ELSE IF u.m = 0 \/ v.m = 0
         THEN (IF u.m = v.m THEN 0 ELSE IF u.m = 0 THEN -1 ELSE 1)
    ELSE IF u.e # v.e THEN (IF u.e < v.e THEN -1 ELSE 1)
    ELSE IF u.m = v.m THEN 0 ELSE IF u.m < v.m THEN -1 ELSE 1

\* -1, 0, 1 as a < b, a = b, a > b, for a, b not NaN
FCmp(a, b) ==
    IF IsZero(a) /\ IsZero(b) THEN 0
    ELSE IF a.s # b.s THEN (IF a.s = 1 THEN -1 ELSE 1)
    ELSE IF a.s = 0 THEN MagCmp(a, b) ELSE -MagCmp(a, b)

FLt(a, b) == ~IsNaN(a) /\ ~IsNaN(b) /\ FCmp(a, b) < 0
FLe(a, b) == ~IsNaN(a) /\ ~IsNaN(b) /\ FCmp(a, b) <= 0
FGt(a, b) == FLt(b, a)
FEq(a, b) == ~IsNaN(a) /\ ~IsNaN(b) /\ FCmp(a, b) = 0

U16Max == 65535

\* a cast that keeps the low 16 bits of the truncated magnitude
AsU16Wrapping(x) ==
    IF IsNaN(x) \/ IsInf(x) THEN 0
    ELSE IF x.s = 1 THEN 0
    ELSE IF x.e >= 16 THEN 0
    ELSE IF x.e >= 0 THEN ((x.m % (U16Max + 1)) * 2^x.e) % (U16Max + 1)
    ELSE IF -x.e >= MantBits THEN 0
    ELSE (x.m \div 2^(-x.e)) % (U16Max + 1)

\* `x as u16`: truncation toward zero, saturating; NaN becomes 0
AsU16(x) ==
    IF IsNaN(x) THEN 0
    ELSE IF x.s = 1 THEN 0
    ELSE IF IsInf(x) THEN U16Max
    ELSE IF x.m = 0 THEN 0
    ELSE IF x.e >= 0
         THEN (IF x.e > 16 \/ x.m > U16Max \div 2^x.e THEN U16Max
               ELSE x.m * 2^x.e)
    ELSE IF -x.e >= MantBits THEN 0
    ELSE IF x.m \div 2^(-x.e) > U16Max THEN U16Max
    ELSE x.m \div 2^(-x.e)

----------------------------------------------------------------------------
(* Wide naturals: little-endian sequences of limbs below LimbBase          *)

LimbBits == 12
LimbBase == 2^LimbBits

\* the three limbs of a natural n < 2^31
WFromInt(n) == <<n % LimbBase, (n \div LimbBase) % LimbBase, n \div LimbBase^2>>

WLimb(a, i) == IF i <= Len(a) THEN a[i] ELSE 0

RECURSIVE Conv(_, _, _, _)
\* the sum of a[j] * b[k + 1 - j] over j = i .. k
Conv(a, b, k, i) ==
    IF i > k \/ i > Len(a) THEN 0
    ELSE a[i] * WLimb(b, k + 1 - i) + Conv(a, b, k, i + 1)

RECURSIVE WMulC(_, _, _, _)
\* the limbs k, k + 1, ... of a * b, t being the column sum at limb k
WMulC(a, b, k, t) ==
    IF k > Len(a) + Len(b) THEN <<>>
    ELSE <<t % LimbBase>> \o WMulC(a, b, k + 1, t \div LimbBase + Conv(a, b, k + 1, 1))

WMul(a, b) == WMulC(a, b, 1, Conv(a, b, 1, 1))

RECURSIVE WPow(_, _)
WPow(a, n) == IF n = 1 THEN a ELSE WMul(a, WPow(a, n - 1))

RECURSIVE WCmpAt(_, _, _)
WCmpAt(a, b, i) ==
    IF i = 0 THEN 0
    ELSE IF WLimb(a, i) < WLimb(b, i) THEN -1
    ELSE IF WLimb(a, i) > WLimb(b, i) THEN 1
    ELSE WCmpAt(a, b, i - 1)

\* -1, 0, 1 as a < b, a = b, a > b
WCmp(a, b) == WCmpAt(a, b, IF Len(a) > Len(b) THEN Len(a) ELSE Len(b))

RECURSIVE WTopAt(_, _, _, _, _, _)
\* The leading 30 bits of a: from limb i down, the limb's upper t bits go
\* to n while n has room; sh counts the bits left out and st tells whether
\* one of them is set.
WTopAt(a, i, n, sh, st, t) ==
    IF i = 0 THEN [n |-> n, sh |-> sh, st |-> st]
    ELSE WTopAt(a, i - 1, n * 2^t + a[i] \div 2^(LimbBits - t),
                sh + LimbBits - t, st \/ a[i] % 2^(LimbBits - t) # 0,
                IF 30 - BitLen(n * 2^t + a[i] \div 2^(LimbBits - t)) > LimbBits
                THEN LimbBits
                ELSE 30 - BitLen(n * 2^t + a[i] \div 2^(LimbBits - t)))

WTop(a) == WTopAt(a, Len(a), 0, 0, FALSE, LimbBits)

\* the number of bits of a
WBitLen(a) == BitLen(WTop(a).n) + WTop(a).sh

\* a * 2^k
WShl(a, k) == [i \in 1..(k \div LimbBits) |-> 0] \o WMul(a, <<2^(k % LimbBits)>>)

\* the f32 nearest to (-1)^s * a * 2^e, for a > 0
WRound(s, a, e) == RoundF32(s, WTop(a).n, e + WTop(a).sh, WTop(a).st)

----------------------------------------------------------------------------
(* Decimal literals                                                        *)

RECURSIVE WPow10(_)
WPow10(n) == IF n = 0 THEN <<1>> ELSE WMul(WPow10(n - 1), <<10>>)

RECURSIVE QuotBits(_, _, _, _)
\* the largest q' >= q, q' < q + 2^i, with q' * den <= num
QuotBits(num, den, q, i) ==
    IF i = 0 THEN q
    ELSE IF WCmp(WMul(WFromInt(q + 2^(i - 1)), den), num) <= 0
         THEN QuotBits(num, den, q + 2^(i - 1), i - 1)
    ELSE QuotBits(num, den, q, i - 1)

\* num / den * 2^(-sh), the quotient q being given
QuotRound(num, den, sh, q) ==
    RoundF32(0, q, -sh, WCmp(WMul(WFromInt(q), den), num) # 0)

\* num / den, sh making the quotient of num * 2^sh by den one of
\* MantBits + 3 or MantBits + 4 bits
Quot(num, den, sh) ==
    IF sh >= 0
    THEN QuotRound(WShl(num, sh), den, sh,
                   QuotBits(WShl(num, sh), den, 0, MantBits + 5))
    ELSE QuotRound(num, WShl(den, -sh), sh,
                   QuotBits(num, WShl(den, -sh), 0, MantBits + 5))

\* the f32 a decimal literal digits * 10^(-places) denotes (digits > 0;
\* places < 0 for a literal such as 1e30)
Lit(digits, places) ==
    IF places < 0
    THEN WRound(0, WMul(WFromInt(digits), WPow10(-places)), 0)
    ELSE Quot(WFromInt(digits), WPow10(places),
              MantBits + 3 + WBitLen(WPow10(places)) - BitLen(digits))

----------------------------------------------------------------------------
(* powf                                                                    *)

\* x^n for the integer exponents n = 2, 3, 4 the code uses
PowInt(x, n) ==
    IF IsNaN(x) THEN NaN
    ELSE IF IsInf(x) THEN Inf(IF n % 2 = 1 THEN x.s ELSE 0)
    ELSE IF x.m = 0 THEN Zero(IF n % 2 = 1 THEN x.s ELSE 0)
    ELSE WRound(IF n % 2 = 1 THEN x.s ELSE 0, WPow(WFromInt(x.m), n), n * x.e)

\* fixed point numbers with FxBits fractional bits
FxBits == 28

\* a * b for fixed point a, b < 1, from the halves of a and b
FxMul(a, b) ==
    LET h == 2^(FxBits \div 2)
    IN  (a \div h) * (b \div h)
        + ((a \div h) * (b % h) + (a % h) * (b \div h)) \div h

RECURSIVE AtanhSeries(_, _, _)
\* z + z^3/3 + z^5/5 + ... from the term zpow = z^k on, for 0 <= z <= 1/3
AtanhSeries(zpow, z2, k) ==
    IF zpow = 0 THEN 0
    ELSE zpow \div k + AtanhSeries(FxMul(zpow, z2), z2, k + 2)

\* z + z^3/3 + ... for fixed point z
Atanh(z) == AtanhSeries(z, FxMul(z, z), 1)

\* ln(u) in fixed point, for u = n / 2^(MantBits - 1) in [1, 2]
LnMant(n) ==
    2 * Atanh(DivBits(n - 2^(MantBits - 1), n + 2^(MantBits - 1), 0, FxBits)[1])

\* The exponent 1.0 / 3.0 is the f32 (1 + 2^-25) / 3, so the cube of x^y is
\* x * exp(ln(x) / 2^25).  ExpBits is the number of fractional bits of that
\* factor and LnBits = ExpBits - 25 the number of those kept of ln(x).
ExpBits == 47
LnBits == ExpBits - 25

\* ln(n * 2^ex) with LnBits fractional bits, n of MantBits bits
LnFix(n, ex) ==
    (ex + MantBits - 1) * ((LnMant(2^MantBits) + 2^(FxBits - LnBits - 1))
                              \div 2^(FxBits - LnBits))
    + LnMant(n) \div 2^(FxBits - LnBits)

\* 2^30 + L + L^2 / 2^(ExpBits + 1), for the fixed point logarithm L: what
\* 2^ExpBits * exp(L / 2^ExpBits) is above 2^ExpBits - 2^30
ExpTail(L) ==
    IF L < 0 THEN 2^30 + L + (((-L) \div 2^14) * ((-L) \div 2^14)) \div 2^20
    ELSE 2^30 + L + ((L \div 2^14) * (L \div 2^14)) \div 2^20

\* 2^ExpBits * exp(L / 2^ExpBits) as limbs (the third may exceed LimbBase)
ExpWide(u) ==
    << u % LimbBase, (u \div LimbBase) % LimbBase,
       u \div LimbBase^2 + LimbBase - 2^(30 - 2 * LimbBits),
       2^(ExpBits - 3 * LimbBits) - 1 >>

RECURSIVE CbrtBits(_, _, _)
\* the largest r' >= r, r' < r + 2^i, with r'^3 <= n
CbrtBits(n, r, i) ==
    IF i = 0 THEN r
    ELSE IF WCmp(WPow(WFromInt(r + 2^(i - 1)), 3), n) <= 0
         THEN CbrtBits(n, r + 2^(i - 1), i - 1)
    ELSE CbrtBits(n, r, i - 1)

\* the cube root of n * 2^j * g * 2^(LimbBits + 3 * k3 - ExpBits)
CbrtRound(n, j, g, k3) ==
    RoundF32(0, CbrtBits(<<0>> \o WMul(WFromInt(n * 2^j), g), 0, 29), k3, TRUE)

\* x^y for x = n * 2^ex > 0, n of MantBits bits, y = (1 + 2^-25) / 3
PowThirdNorm(n, ex) ==
    CbrtRound(n, (ex - ExpBits - LimbBits) % 3, ExpWide(ExpTail(LnFix(n, ex))),
              (ex - ExpBits - LimbBits - ((ex - ExpBits - LimbBits) % 3)) \div 3)

PowThird(x) ==
    IF IsNaN(x) THEN NaN
    ELSE IF IsZero(x) THEN Zero(0)
    ELSE IF x.s = 1 THEN NaN
    ELSE IF IsInf(x) THEN x
    ELSE PowThirdNorm(x.m * 2^NormShift(x.m), x.e - NormShift(x.m))

Two == FromInt(2)
Three == FromInt(3)
Four == FromInt(4)
OneThird == FDiv(FromInt(1), Three)

\* f32::powf for the exponents the code passes: 2.0, 3.0, 4.0 and 1.0 / 3.0
powf(x, y) ==
    IF y = OneThird THEN PowThird(x)
    ELSE IF y = Two \/ y = Three \/ y = Four THEN PowInt(x, AsU16(y))
    ELSE NaN

----------------------------------------------------------------------------
(* The program: src/correction.rs                                          *)

Gain == {"Two", "One", "OneQuarter", "OneEighth"}
IntegrationTime == {"_800ms", "_400ms", "_200ms", "_100ms", "_50ms", "_25ms"}

\* a table with the gains themselves for the two low settings
gain_factor_reciprocal(gain) ==
    CASE gain = "Two" -> Lit(10, 1)
      [] gain = "One" -> Lit(20, 1)
      [] gain = "OneQuarter" -> Lit(25, 2)
      [] gain = "OneEighth" -> Lit(125, 3)

gain_factor(gain) ==
    CASE gain = "Two" -> Lit(10, 1)
      [] gain = "One" -> Lit(20, 1)
      [] gain = "OneQuarter" -> Lit(80, 1)
      [] gain = "OneEighth" -> Lit(160, 1)

\* a table whose last entry is left at zero
it_factor_defaulted(it) ==
    CASE it = "_800ms" -> Lit(36, 4)
      [] it = "_400ms" -> Lit(72, 4)
      [] it = "_200ms" -> Lit(144, 4)
      [] it = "_100ms" -> Lit(288, 4)
      [] it = "_50ms" -> Lit(576, 4)
      [] it = "_25ms" -> Zero(0)

\* a table with the multipliers in the opposite order
it_factor_reversed(it) ==
    CASE it = "_800ms" -> Lit(1152, 4)
      [] it = "_400ms" -> Lit(576, 4)
      [] it = "_200ms" -> Lit(288, 4)
      [] it = "_100ms" -> Lit(144, 4)
      [] it = "_50ms" -> Lit(72, 4)
      [] it = "_25ms" -> Lit(36, 4)

it_factor(it) ==
    CASE it = "_800ms" -> Lit(36, 4)
      [] it = "_400ms" -> Lit(72, 4)
      [] it = "_200ms" -> Lit(144, 4)
      [] it = "_100ms" -> Lit(288, 4)
      [] it = "_50ms" -> Lit(576, 4)
      [] it = "_25ms" -> Lit(1152, 4)

get_lux_raw_conversion_factor(it, gain) ==
    FMul(gain_factor(gain), it_factor(it))

C0 == Lit(10023, 4)
C1 == Lit(81488, 9)
C2 == FNeg(Lit(93924, 13))
C3 == Lit(60135, 17)

correct_high_lux(lux) ==
    FAdd(FAdd(FAdd(FMul(powf(lux, Four), C3), FMul(powf(lux, Three), C2)),
              FMul(FMul(lux, lux), C1)),
         FMul(lux, C0))

\* C1.powf(2.0) - 3.0 * C2 * C0 - 12.0 * C3 * lux
InvP(lux) ==
    FSub(FSub(powf(C1, Two), FMul(FMul(Three, C2), C0)),
         FMul(FMul(FromInt(12), C3), lux))

\* 2.0 * C1.powf(3.0) - 9.0 * C2 * C1 * C0 + 27.0 * C3 * C0.powf(2.0)
\*     - 27.0 * C2.powf(2.0) * lux + 72.0 * C3 * C1 * lux
InvQ(lux) ==
    FAdd(FSub(FAdd(FSub(FMul(Two, powf(C1, Three)),
                        FMul(FMul(FMul(FromInt(9), C2), C1), C0)),
                   FMul(FMul(FromInt(27), C3), powf(C0, Two))),
              FMul(FMul(FromInt(27), powf(C2, Two)), lux)),
         FMul(FMul(FMul(FromInt(72), C3), C1), lux))

\* (Q + (-4.0 * P.powf(3.0) + Q.powf(2.0)).sqrt()).powf(1.0 / 3.0)
InvR(P, Q) ==
    powf(FAdd(Q, FSqrt(FAdd(FMul(FNeg(Four), powf(P, Three)), powf(Q, Two)))),
         OneThird)

\* 2.0_f32.powf(1.0 / 3.0)
CbrtTwo == powf(Two, OneThird)

\* C2.powf(2.0) / (4.0 * C3.powf(2.0)) - (2.0 * C1) / (3.0 * C3)
\*     + (2^(1/3) * P) / (3.0 * C3 * R) + R / (3.0 * 2^(1/3) * C3)
InvA(P, R) ==
    FAdd(FAdd(FSub(FDiv(powf(C2, Two), FMul(Four, powf(C3, Two))),
                   FDiv(FMul(Two, C1), FMul(Three, C3))),
              FDiv(FMul(CbrtTwo, P), FMul(FMul(Three, C3), R))),
         FDiv(R, FMul(FMul(Three, CbrtTwo), C3)))

\* C2.powf(2.0) / (2.0 * C3.powf(2.0)) - (4.0 * C1) / (3.0 * C3)
\*     - (2^(1/3) * P) / (3.0 * C3 * R) - R / (3.0 * 2^(1/3) * C3)
\*     - (-(C2.powf(3.0) / C3.powf(3.0)) + (4.0 * C2 * C1) / C3.powf(2.0)
\*        - (8.0 * C0) / C3) / (4.0 * A.sqrt())
InvB(P, R, A) ==
    FSub(FSub(FSub(FSub(FDiv(powf(C2, Two), FMul(Two, powf(C3, Two))),
                        FDiv(FMul(Four, C1), FMul(Three, C3))),
                   FDiv(FMul(CbrtTwo, P), FMul(FMul(Three, C3), R))),
              FDiv(R, FMul(FMul(Three, CbrtTwo), C3))),
         FDiv(FSub(FAdd(FNeg(FDiv(powf(C2, Three), powf(C3, Three))),
                        FDiv(FMul(FMul(Four, C2), C1), powf(C3, Two))),
                   FDiv(FMul(FromInt(8), C0), C3)),
              FMul(Four, FSqrt(A))))

\* the root with the last square root subtracted
InvSumLower(A, B) ==
    FSub(FSub(FDiv(FNeg(C2), FMul(Four, C3)), FDiv(FSqrt(A), Two)),
         FDiv(FSqrt(B), Two))

\* -C2 / (4.0 * C3) - A.sqrt() / 2.0 + B.sqrt() / 2.0
InvSum(A, B) ==
    FAdd(FSub(FDiv(FNeg(C2), FMul(Four, C3)), FDiv(FSqrt(A), Two)),
         FDiv(FSqrt(B), Two))

\* the forward correction in the place of the inverse
inverse_as_forward(lux) == correct_high_lux(lux)

\* The source writes one expression in which the subexpressions P, Q, R and
\* A recur; each is evaluated once here and handed on.
InvFromA(P, R, A) == InvSum(A, InvB(P, R, A))
InvFromR(P, R) == InvFromA(P, R, InvA(P, R))
InvFromP(P, Q) == InvFromR(P, InvR(P, Q))
inverse_high_lux_correction(lux) == InvFromP(InvP(lux), InvQ(lux))

Thousand == Lit(10000, 1)

\* What a call returns, with the values it went through: the factor,
\* whether the correction branch was taken (applied), the lux that is
\* divided (eff), the quotient (ratio) and the returned count (raw).
Cast(lux, factor, applied, eff, ratio) ==
    [lux |-> lux, factor |-> factor, applied |-> applied, eff |-> eff,
     ratio |-> ratio, raw |-> AsU16(ratio)]

\* (lux / factor) as u16
Divide(lux, factor, applied, eff) ==
    Cast(lux, factor, applied, eff, FDiv(eff, factor))

\* a branch taken from 1000.0 on
BranchAtLeast(gain, lux, factor) ==
    IF (gain = "OneQuarter" \/ gain = "OneEighth") /\ FLe(Thousand, lux)
    THEN Divide(lux, factor, TRUE, inverse_high_lux_correction(lux))
    ELSE Divide(lux, factor, FALSE, lux)

\* a branch taken whatever the gain
BranchEveryGain(gain, lux, factor) ==
    IF FGt(lux, Thousand)
    THEN Divide(lux, factor, TRUE, inverse_high_lux_correction(lux))
    ELSE Divide(lux, factor, FALSE, lux)

\* the body of calculate_raw_threshold_value past the first line
Branch(gain, lux, factor) ==
    IF (gain = "OneQuarter" \/ gain = "OneEighth") /\ FGt(lux, Thousand)
    THEN Divide(lux, factor, TRUE, inverse_high_lux_correction(lux))
    ELSE Divide(lux, factor, FALSE, lux)

calculate_raw_threshold_value(it, gain, lux) ==
    Branch(gain, lux, get_lux_raw_conversion_factor(it, gain))

----------------------------------------------------------------------------
(* The lux values the calls are made with                                  *)

MaxDoublings == 7

RECURSIVE Ladder(_)
\* 2000, 4000, ..., 1000 * 2^k
Ladder(k) == IF k = 0 THEN <<>> ELSE Append(Ladder(k - 1), FromInt(1000 * 2^k))

\* the f32 that is k places above 1000.0
Above1000(k) == Fin(0, 1000 * 2^(MantBits - 10) + k, 10 - MantBits)

LuxSeq ==
    << FromInt(-1), Zero(0), Lit(5, 1), FromInt(1), FromInt(100), FromInt(500),
       Above1000(-1),             \* the f32 just below 1000
       Above1000(0),
       Above1000(1),              \* the f32 just above 1000
       Lit(10000001, 4),          \* 1000.0001
       Above1000(1347),           \* 1000.08221
       Above1000(1348),           \* 1000.08228, the next f32
       FromInt(1001), FromInt(5000), FromInt(10000), FromInt(20000),
       FromInt(50000), FromInt(100000), FromInt(120000),
       FromInt(92965712),         \* the radicand A is zero
       Lit(1, -9),                \* 1e9: the radicand A is negative
       Lit(1, -30),               \* 1e30
       Fin(0, 2^MantBits - 1, MaxExp),          \* f32::MAX
       Inf(0), NaN >>
    \o Ladder(MaxDoublings)

NumLux == Len(LuxSeq)

\* a value through the inverse and then the forward correction
Back(y, x) == [y |-> y, x |-> x, back |-> correct_high_lux(x)]
Trip(y) == Back(y, inverse_high_lux_correction(y))

----------------------------------------------------------------------------
(* The state machine: with the sensor settings fixed, a caller goes        *)
(* through LuxSeq; for each value it computes the raw threshold and then   *)
(* takes the value through the inverse and the forward correction.  calls  *)
(* and trips record what each call was given and what it returned.         *)

VARIABLES integration_time, analog_gain, next, pc, calls, trips

vars == <<integration_time, analog_gain, next, pc, calls, trips>>

Init ==
    /\ integration_time \in IntegrationTime
    /\ analog_gain \in Gain
    /\ next = 1
    /\ pc = "threshold"
    /\ calls = <<>>
    /\ trips = <<>>

Threshold ==
    /\ pc = "threshold"
    /\ next <= NumLux
    /\ calls' = Append(calls, calculate_raw_threshold_value(
                                  integration_time, analog_gain, LuxSeq[next]))
    /\ pc' = "roundtrip"
    /\ UNCHANGED <<integration_time, analog_gain, next, trips>>

RoundTrip ==
    /\ pc = "roundtrip"
    /\ trips' = Append(trips, Trip(LuxSeq[next]))
    /\ next' = next + 1
    /\ pc' = "threshold"
    /\ UNCHANGED <<integration_time, analog_gain, calls>>

Next == Threshold \/ RoundTrip

Spec == Init /\ [][Next]_vars

----------------------------------------------------------------------------
(* Properties of the calls made so far                                     *)

LowGains == {"OneQuarter", "OneEighth"}

\* the correction is due for call i: low gain and lux strictly above 1000
CorrectionDue(i) ==
    analog_gain \in LowGains /\ FGt(calls[i].lux, FromInt(1000))

\* the largest lux a raw count stands for: U16Max counts at the largest factor
FullScale ==
    FMul(FromInt(U16Max), get_lux_raw_conversion_factor("_25ms", "OneEighth"))

\* lux in the range the correction is made for
InRange(lux) == FLe(FromInt(1000), lux) /\ FLe(lux, FullScale)

\* |a - b| <= b / 1000, exactly, for f32 a and b
Within(a, b) ==
    /\ IsFin(a) /\ IsFin(b)
    /\ a.s = 0 /\ b.s = 0 /\ a.m > 0 /\ b.m > 0
    /\ a.e - b.e \in {-1, 0, 1}
    /\ LET low == IF a.e < b.e THEN a.e ELSE b.e
           am == a.m * 2^(a.e - low)
           bm == b.m * 2^(b.e - low)
       IN  (IF am > bm THEN am - bm ELSE bm - am) <= bm \div 1000

\* C1: for fixed settings the returned count is non-decreasing in lux,
\* also for pairs on both sides of the correction boundary at 1000.
C1_Monotone ==
    \A i, j \in DOMAIN calls :
        FLe(calls[i].lux, calls[j].lux) => calls[i].raw <= calls[j].raw

\* a call at exactly 1000 lux and a call above it that returns less
C1_Decrease ==
    /\ analog_gain = "OneQuarter"
    /\ integration_time = "_800ms"
    /\ \E i, j \in DOMAIN calls :
          /\ calls[i].lux = FromInt(1000)
          /\ calls[j].lux = FromInt(1001)
          /\ calls[i].raw = 34722
          /\ calls[j].raw = 32460

\* C2: the inverse correction is applied exactly when the gain is OneQuarter
\* or OneEighth and lux > 1000; otherwise the requested lux is divided, and
\* when it is applied the output of the inverse correction is divided.
C2_CorrectionIff ==
    \A i \in DOMAIN calls :
        /\ calls[i].applied <=> CorrectionDue(i)
        /\ ~CorrectionDue(i) => calls[i].eff = calls[i].lux
        /\ (CorrectionDue(i) /\ i \in DOMAIN trips) => calls[i].eff = trips[i].x

\* with a low gain: no correction at exactly 1000, correction at the next f32
C2_Boundary ==
    /\ analog_gain \in LowGains
    /\ \E i, j \in DOMAIN calls :
          /\ calls[i].lux = FromInt(1000)
          /\ ~calls[i].applied
          /\ calls[i].eff = calls[i].lux
          /\ calls[j].lux = Above1000(1)
          /\ calls[j].applied
          /\ calls[j].eff # calls[j].lux

\* C3: the cast of the quotient saturates: above 65535 it gives 65535,
\* negative or NaN gives 0, otherwise the quotient truncated toward zero.
C3_SaturatingCast ==
    \A i \in DOMAIN calls :
        /\ calls[i].raw \in 0..U16Max
        /\ IsNaN(calls[i].ratio) => calls[i].raw = 0
        /\ FLt(calls[i].ratio, Zero(0)) => calls[i].raw = 0
        /\ FGt(calls[i].ratio, FromInt(U16Max)) => calls[i].raw = U16Max
        /\ (FLe(Zero(0), calls[i].ratio) /\ FLe(calls[i].ratio, FromInt(U16Max)))
              => /\ FLe(FromInt(calls[i].raw), calls[i].ratio)
                 /\ FLt(calls[i].ratio, FromInt(calls[i].raw + 1))

\* calls whose quotient was too large, NaN, negative, and one with a
\* fraction that was cut off
C3_EveryCase ==
    /\ \E i \in DOMAIN calls :
          FGt(calls[i].ratio, FromInt(U16Max)) /\ calls[i].raw = U16Max
    /\ \E i \in DOMAIN calls : IsNaN(calls[i].ratio) /\ calls[i].raw = 0
    /\ \E i \in DOMAIN calls :
          FLt(calls[i].ratio, Zero(0)) /\ calls[i].raw = 0
    /\ \E i \in DOMAIN calls :
          /\ calls[i].raw \in 1..(U16Max - 1)
          /\ FLt(FromInt(calls[i].raw), calls[i].ratio)

GainMultiplier ==
    [g \in Gain |-> CASE g = "Two" -> 1
                      [] g = "One" -> 2
                      [] g = "OneQuarter" -> 8
                      [] g = "OneEighth" -> 16]

ItMultiplier ==
    [t \in IntegrationTime |-> CASE t = "_800ms" -> Lit(36, 4)
                                 [] t = "_400ms" -> Lit(72, 4)
                                 [] t = "_200ms" -> Lit(144, 4)
                                 [] t = "_100ms" -> Lit(288, 4)
                                 [] t = "_50ms" -> Lit(576, 4)
                                 [] t = "_25ms" -> Lit(1152, 4)]

\* f = g * u with no rounding, for a natural g and f32 f, u
IsProduct(f, g, u) ==
    /\ IsFin(f) /\ IsFin(u)
    /\ f.s = u.s
    /\ f.e - u.e \in 0..6
    /\ f.m * 2^(f.e - u.e) = g * u.m

\* C5: the factor is exactly the gain multiplier (1, 2, 8, 16) times the
\* integration time multiplier (0.0036 ... 0.1152), for every pair.
C5_FactorIsProduct ==
    \A i \in DOMAIN calls :
        IsProduct(calls[i].factor, GainMultiplier[analog_gain],
                  ItMultiplier[integration_time])

\* a call with OneQuarter and 100 ms whose factor is 8 * 0.0288
C5_Sample ==
    /\ analog_gain = "OneQuarter"
    /\ integration_time = "_100ms"
    /\ calls # <<>>
    /\ IsProduct(calls[1].factor, 8, Lit(288, 4))

\* C6: when no correction applies, for lux >= 0 with a quotient of at most
\* 65535, the requested lux itself is divided and the count is the floor
\* of lux / factor.
C6_Uncorrected ==
    \A i \in DOMAIN calls :
        ( /\ FLe(calls[i].lux, FromInt(1000)) \/ analog_gain \notin LowGains
          /\ FLe(Zero(0), calls[i].lux)
          /\ FLe(FDiv(calls[i].lux, calls[i].factor), FromInt(U16Max)) )
        => /\ calls[i].eff = calls[i].lux
           /\ FLe(FromInt(calls[i].raw), FDiv(calls[i].lux, calls[i].factor))
           /\ FLt(FDiv(calls[i].lux, calls[i].factor), FromInt(calls[i].raw + 1))

\* 5000 lux with gain Two and 25 ms: above 1000, not corrected, 43402 counts
C6_Sample ==
    /\ analog_gain = "Two"
    /\ integration_time = "_25ms"
    /\ \E i \in DOMAIN calls :
          /\ calls[i].lux = FromInt(5000)
          /\ calls[i].eff = calls[i].lux
          /\ calls[i].raw = 43402

\* C7: the factor every call divides by is strictly positive.
C7_FactorPositive ==
    \A i \in DOMAIN calls :
        IsFin(calls[i].factor) /\ FGt(calls[i].factor, Zero(0))

\* a division by the smallest factor, that of gain Two and 800 ms
C7_Sample ==
    /\ analog_gain = "Two"
    /\ integration_time = "_800ms"
    /\ \E i \in DOMAIN calls :
          /\ calls[i].lux = FromInt(100)
          /\ FGt(calls[i].factor, Zero(0))
          /\ calls[i].ratio = FDiv(calls[i].lux, calls[i].factor)
          /\ calls[i].raw > 0

\* the radicand A of the inverse correction for each value of LuxSeq
RadicandA ==
    [i \in 1..NumLux |->
        InvA(InvP(LuxSeq[i]), InvR(InvP(LuxSeq[i]), InvQ(LuxSeq[i])))]

\* a radicand no square root is defined for
Undefined(v) == IsNaN(v) \/ (v.s = 1 /\ ~IsZero(v))

\* C8: every call returns a count, whatever the settings and the lux; when
\* the radicand of a square root of the inverse correction is negative or
\* NaN, the inverse correction yields NaN, NaN is divided and cast: 0.
C8_TotalAndPropagates ==
    /\ Len(calls) = (IF pc = "threshold" THEN next - 1 ELSE next)
    /\ \A i \in DOMAIN calls :
          /\ calls[i].lux = LuxSeq[i]
          /\ calls[i].raw \in 0..U16Max
          /\ (calls[i].applied /\ Undefined(RadicandA[i]))
                => /\ IsNaN(calls[i].eff)
                   /\ IsNaN(calls[i].ratio)
                   /\ calls[i].raw = 0

\* a corrected call with a finite lux and a negative radicand A
C8_NegativeRadicand ==
    \E i \in DOMAIN calls :
        /\ calls[i].applied
        /\ IsFin(calls[i].lux)
        /\ IsFin(RadicandA[i])
        /\ RadicandA[i].s = 1
        /\ IsNaN(calls[i].eff)
        /\ calls[i].raw = 0

\* integration times in milliseconds and gains in eighths
Millis ==
    [t \in IntegrationTime |-> CASE t = "_800ms" -> 800
                                 [] t = "_400ms" -> 400
                                 [] t = "_200ms" -> 200
                                 [] t = "_100ms" -> 100
                                 [] t = "_50ms" -> 50
                                 [] t = "_25ms" -> 25]

Eighths ==
    [g \in Gain |-> CASE g = "Two" -> 16
                      [] g = "One" -> 8
                      [] g = "OneQuarter" -> 2
                      [] g = "OneEighth" -> 1]

FactorTable ==
    [t \in IntegrationTime, g \in Gain |-> get_lux_raw_conversion_factor(t, g)]

\* C9: with the gain fixed a longer integration time has a strictly smaller
\* factor, and with the integration time fixed a higher gain has a strictly
\* smaller factor.
C9_OrderReversing ==
    \A i \in DOMAIN calls :
        /\ \A t \in IntegrationTime :
              Millis[t] > Millis[integration_time]
                  => FLt(FactorTable[t, analog_gain], calls[i].factor)
        /\ \A g \in Gain :
              Eighths[g] > Eighths[analog_gain]
                  => FLt(FactorTable[integration_time, g], calls[i].factor)

\* a call with gain One and 100 ms: 800 ms and gain Two have smaller factors
C9_Sample ==
    /\ analog_gain = "One"
    /\ integration_time = "_100ms"
    /\ calls # <<>>
    /\ FLt(FactorTable["_800ms", "One"], calls[1].factor)
    /\ FLt(FactorTable["_100ms", "Two"], calls[1].factor)
    /\ FLt(calls[1].factor, FactorTable["_100ms", "OneQuarter"])

====
